---------------------------- MODULE Spec2Model ----------------------------
(***************************************************************************)
(* Model of OsmChangeTileGenCommand                                        *)
(* (src/Scripts/Maperipy/OsmChangeTileGenCommand.py): the analysis of an   *)
(* OsmChange file into the changed-tile index, the lazily built guard      *)
(* index, and the tile / super-tile queries answered from them.            *)
(*                                                                         *)
(* Geography is discretised: the world is a Cells x Cells grid of          *)
(* projected positions, lon counted eastwards and lat counted northwards,  *)
(* so that tile rows (counted southwards) run against lat as in deg2num.   *)
(* A Python dict-or-None attribute is a record [none, d]; a Python result  *)
(* is a string: "True", "False", "None" or the name of the exception that  *)
(* left the call.                                                          *)
(***************************************************************************)
EXTENDS Integers, Sequences, FiniteSets, TLC

\* Bounds of the model
MinZoom == 1        \* self.min_zoom, the coarsest analysed zoom
MaxZoom == 2        \* self.max_zoom, the finest analysed zoom
CellsPerTile == 2   \* positions per tile side at MaxZoom
MaxRecords == 2     \* change records in one OsmChange file
MaxDepth == 3       \* nesting depth of relation members followed by bboxes
MaxProbe == 3       \* largest tile column and row a query action is called with

\* "We did not see width or height values larger than 3."
MaxBlock == 3

RECURSIVE Pow2(_)
Pow2(n) == IF n <= 0 THEN 1 ELSE 2 * Pow2(n - 1)

Cells == CellsPerTile * Pow2(MaxZoom)
Coord == 0 .. (Cells - 1)

AnalyzedZooms == MinZoom .. MaxZoom
QueryZooms == (MinZoom - 1) .. (MaxZoom + 1)
TilesAt(zoom) == (0 .. (Pow2(zoom) - 1)) \X (0 .. (Pow2(zoom) - 1))
ProbeTiles(zoom) == { t \in TilesAt(zoom) : t[1] <= MaxProbe /\ t[2] <= MaxProbe }

Min(S) == CHOOSE m \in S : \A n \in S : m <= n
Max(S) == CHOOSE m \in S : \A n \in S : m >= n

EmptyDict == [z \in {} |-> {}]
None == [none |-> TRUE, d |-> EmptyDict]
Dict(f) == [none |-> FALSE, d |-> f]

-----------------------------------------------------------------------------
\* Bounding boxes (maperipy BoundingBox): empty, or a lon/lat rectangle.
EmptyBox == [empty |-> TRUE, min_x |-> 0, min_y |-> 0, max_x |-> 0, max_y |-> 0]
Box(x0, y0, x1, y1) ==
    [empty |-> FALSE, min_x |-> x0, min_y |-> y0, max_x |-> x1, max_y |-> y1]
PointBox(p) == Box(p[1], p[2], p[1], p[2])

extend_with(a, b) ==
    IF b.empty THEN a
    ELSE IF a.empty THEN b
    ELSE Box(IF a.min_x < b.min_x THEN a.min_x ELSE b.min_x,
             IF a.min_y < b.min_y THEN a.min_y ELSE b.min_y,
             IF a.max_x > b.max_x THEN a.max_x ELSE b.max_x,
             IF a.max_y > b.max_y THEN a.max_y ELSE b.max_y)

RECURSIVE PathBox(_)
PathBox(path) ==
    IF path = << >> THEN EmptyBox
    ELSE extend_with(PointBox(Head(path)), PathBox(Tail(path)))

\* deg2num: the tile of a position; rows grow southwards, lat northwards.
deg2num(lat, lon, zoom) ==
    << (lon * Pow2(zoom)) \div Cells, ((Cells - 1 - lat) * Pow2(zoom)) \div Cells >>

Parent(tile) == << tile[1] \div 2, tile[2] \div 2 >>

-----------------------------------------------------------------------------
\* The generation polygon of PolygonTileGenCommand: a lon/lat rectangle, as
\* the commands of this repository are built from a BoundingBox.
linear_ring_overlapps_polygon(poly, bbox) ==
    /\ ~bbox.empty
    /\ bbox.min_x <= poly.max_x /\ poly.min_x <= bbox.max_x
    /\ bbox.min_y <= poly.max_y /\ poly.min_y <= bbox.max_y

\* The positions of tile (x, y) at zoom, for a zoom up to MaxZoom.
TileBox(zoom, x, y) ==
    LET side == Cells \div Pow2(zoom)
    IN  Box(x * side, Cells - (y + 1) * side, (x + 1) * side - 1, Cells - 1 - y * side)

tiles_overlapps_polygon(poly, zoom, x, y) ==
    linear_ring_overlapps_polygon(poly, TileBox(zoom, x, y))

-----------------------------------------------------------------------------
\* OSM snapshots (maperipy OsmData): nodes by id, ways by id (their path),
\* relations by id (their type tag, "" when untagged, and their members).
Ref(t, i) == [ref_type |-> t, ref_id |-> i]

Way1 == << <<2, 4>>, <<5, 4>> >>
Way2 == << <<4, 2>>, <<4, 5>> >>

BaseOsm ==
    [nodes |-> (1 :> <<1, 6>>) @@ (3 :> <<6, 1>>),
     ways |-> (1 :> Way1),
     relations |->
        (1 :> [type |-> "multipolygon",
               members |-> << Ref("node", 1), Ref("way", 1) >>])]

NewOsm ==
    [nodes |-> (1 :> <<5, 6>>) @@ (2 :> <<2, 2>>),
     ways |-> (1 :> Way1) @@ (2 :> Way2),
     relations |->
        (1 :> [type |-> "multipolygon",
               members |-> << Ref("node", 1), Ref("node", 9), Ref("way", 1) >>])
        @@ (2 :> [type |-> "route",
               members |-> << Ref("node", 1), Ref("node", 9), Ref("way", 1) >>])
        @@ (3 :> [type |-> "multipolygon",
               members |-> << Ref("node", 9), Ref("node", 2) >>])
        @@ (4 :> [type |-> "",
               members |-> << Ref("relation", 3), Ref("way", 2) >>])
        @@ (5 :> [type |-> "route",
               members |-> << Ref("node", 2), Ref("relation", 5) >>])]

has_node(osm, id) == id \in DOMAIN osm.nodes
has_way(osm, id) == id \in DOMAIN osm.ways
has_relation(osm, id) == id \in DOMAIN osm.relations

\* True when each member's box is yielded on its own.
rel_members_bbox(relation) == ~(relation.type # "" /\ relation.type = "multipolygon")

RECURSIVE ExtendAll(_, _)
ExtendAll(acc, boxes) ==
    IF boxes = << >> THEN acc
    ELSE ExtendAll(extend_with(acc, Head(boxes)), Tail(boxes))

MemberType(osm, member) ==
    IF member.ref_type = "node" /\ has_node(osm, member.ref_id) THEN "node"
    ELSE IF member.ref_type = "way" /\ has_way(osm, member.ref_id) THEN "way"
    ELSE IF member.ref_type = "relation" /\ has_relation(osm, member.ref_id)
         THEN "relation"
    ELSE "None"

\* The generator bboxes, run to its end: the boxes in the order they are
\* yielded, each with the value it has when it is yielded, and the exception
\* that ended the generator ("" when it returned).  depth is the number of
\* relation levels that may still be entered.
RECURSIVE bboxes(_, _, _, _), MembersBoxes(_, _, _, _, _)
bboxes(osm, element_type, element_id, depth) ==
    IF element_type = "node" THEN
        IF has_node(osm, element_id)
        THEN [boxes |-> << PointBox(osm.nodes[element_id]) >>, err |-> ""]
        ELSE [boxes |-> << >>, err |-> "KeyError"]
    ELSE IF element_type = "way" THEN
        IF has_way(osm, element_id)
        THEN [boxes |-> << PathBox(osm.ways[element_id]) >>, err |-> ""]
        ELSE [boxes |-> << >>, err |-> "KeyError"]
    ELSE IF element_type = "relation" THEN
        IF ~has_relation(osm, element_id)
        THEN [boxes |-> << >>, err |-> "KeyError"]
        ELSE IF depth = 0
        THEN [boxes |-> << >>, err |-> "RuntimeError"]
        ELSE MembersBoxes(osm, osm.relations[element_id], 1, EmptyBox, depth)
    ELSE [boxes |-> << >>, err |-> ""]

\* The loop over relation.members, from member i on, rel_bbox being the
\* accumulator of the members seen so far.
MembersBoxes(osm, relation, i, rel_bbox, depth) ==
    IF i > Len(relation.members) THEN [boxes |-> << >>, err |-> ""]
    ELSE
        LET member == relation.members[i]
            sub == bboxes(osm, MemberType(osm, member), member.ref_id, depth - 1)
            each == rel_members_bbox(relation)
            acc == IF each THEN rel_bbox ELSE ExtendAll(rel_bbox, sub.boxes)
            here == IF each THEN sub.boxes ELSE << >>
        IN  IF sub.err # "" THEN [boxes |-> here, err |-> sub.err]
            ELSE LET out == IF each THEN here ELSE << acc >>
                     rest == MembersBoxes(osm, relation, i + 1, acc, depth)
                 IN  [boxes |-> out \o rest.boxes, err |-> rest.err]

-----------------------------------------------------------------------------
\* The changed-tile index: d[zoom] is the set of tiles marked at zoom.
new_tile_hit(d, tile, zoom) == zoom \in DOMAIN d /\ tile \notin d[zoom]

\* new_tile as it would be if it replaced the marks of the zoom.
new_tile_replacing(d, tile, zoom) ==
    IF new_tile_hit(d, tile, zoom)
    THEN [d EXCEPT ![zoom] = {tile}]
    ELSE d

new_tile(d, tile, zoom) ==
    IF new_tile_hit(d, tile, zoom)
    THEN [d EXCEPT ![zoom] = @ \cup {tile}]
    ELSE d

\* new_tile_upwards as it would be without the call on the parent.
new_tile_only(d, tile, zoom) == new_tile(d, tile, zoom)

\* new_tile_upwards as it would be if it stopped short of min_zoom.
RECURSIVE new_tile_above_min(_, _, _)
new_tile_above_min(d, tile, zoom) ==
    IF zoom > Min(DOMAIN d) /\ (zoom > Max(DOMAIN d) \/ new_tile_hit(d, tile, zoom))
    THEN new_tile_above_min(new_tile(d, tile, zoom), Parent(tile), zoom - 1)
    ELSE d

RECURSIVE new_tile_upwards(_, _, _)
new_tile_upwards(d, tile, zoom) ==
    IF zoom > Max(DOMAIN d) \/ new_tile_hit(d, tile, zoom)
    THEN new_tile_upwards(new_tile(d, tile, zoom), Parent(tile), zoom - 1)
    ELSE d

RECURSIVE MarkTiles(_, _)
MarkTiles(d, tiles) ==
    IF tiles = {} THEN d
    ELSE LET t == CHOOSE u \in tiles : TRUE
         IN  MarkTiles(new_tile_upwards(d, t, Max(DOMAIN d)), tiles \ {t})

\* The tiles mark_bbox loops over: range(left, right+1) x range(bottom, top+1).
MarkRange(bbox, zoom) ==
    LET lt == deg2num(bbox.max_y, bbox.min_x, zoom)
        rb == deg2num(bbox.min_y, bbox.max_x, zoom)
    IN  (lt[1] .. rb[1]) \X (rb[2] .. lt[2])

\* mark_bbox as it would be without the test against the polygon.
mark_bbox_anywhere(poly, d, bbox) ==
    IF bbox.empty THEN d ELSE MarkTiles(d, MarkRange(bbox, Max(DOMAIN d)))

mark_bbox(poly, d, bbox) ==
    IF ~linear_ring_overlapps_polygon(poly, bbox) THEN d
    ELSE MarkTiles(d, MarkRange(bbox, Max(DOMAIN d)))

RECURSIVE MarkBoxes(_, _, _)
MarkBoxes(poly, d, boxes) ==
    IF boxes = << >> THEN d
    ELSE MarkBoxes(poly, mark_bbox(poly, d, Head(boxes)), Tail(boxes))

-----------------------------------------------------------------------------
\* One change record of an OsmChange file, and the records of one file.
Record(a, t, i) == [action |-> a, element_type |-> t, element_id |-> i]

Records ==
    { Record("modify", "node", 1), Record("modify", "node", 2),
      Record("delete", "node", 3), Record("create", "way", 2),
      Record("create", "relation", 1), Record("create", "relation", 2),
      Record("create", "relation", 4), Record("create", "relation", 5) }

RECURSIVE SeqsUpTo(_, _)
SeqsUpTo(S, n) ==
    IF n = 0 THEN { << >> }
    ELSE LET shorter == SeqsUpTo(S, n - 1)
         IN  shorter \cup { Append(q, e) : q \in shorter, e \in S }

\* An OsmChange file: whether its timestamp attribute parses, and its records.
ChangeFiles ==
    { [timestamp_ok |-> TRUE, records |-> r] : r \in SeqsUpTo(Records, MaxRecords) }
    \cup { [timestamp_ok |-> FALSE, records |-> << >>] }

\* The body of the try statement for one record: the index after the record,
\* the boxes handed to mark_bbox, and the exception that left the try ("" when
\* none did).
ProcessRecord(poly, d, baseOsm, newOsm, rec) ==
    LET old == IF rec.action \in {"delete", "modify"}
               THEN bboxes(baseOsm, rec.element_type, rec.element_id, MaxDepth)
               ELSE [boxes |-> << >>, err |-> ""]
        d1 == MarkBoxes(poly, d, old.boxes)
        new == IF old.err = "" /\ rec.action \in {"create", "modify"}
               THEN bboxes(newOsm, rec.element_type, rec.element_id, MaxDepth)
               ELSE [boxes |-> << >>, err |-> ""]
        d2 == MarkBoxes(poly, d1, new.boxes)
    IN  [d |-> d2, calls |-> old.boxes \o new.boxes,
         err |-> IF old.err # "" THEN old.err ELSE new.err]

\* The loop over the records: KeyError is swallowed, anything else ends it.
RECURSIVE ProcessRecords(_, _, _, _, _)
ProcessRecords(poly, d, baseOsm, newOsm, records) ==
    IF records = << >> THEN [d |-> d, calls |-> << >>, err |-> ""]
    ELSE LET one == ProcessRecord(poly, d, baseOsm, newOsm, Head(records))
         IN  IF one.err \in {"", "KeyError"}
             THEN LET rest == ProcessRecords(poly, one.d, baseOsm, newOsm,
                                             Tail(records))
                  IN  [rest EXCEPT !.calls = one.calls \o @]
             ELSE one

-----------------------------------------------------------------------------
\* The guard index.
Neighbourhood(tile) ==
    ((tile[1] - 1) .. (tile[1] + 1)) \X ((tile[2] - 1) .. (tile[2] + 1))

\* GuardLevel as it would be without the polygon test.
GuardLevelAnywhere(poly, d, g, zoom) ==
    { t \in UNION { Neighbourhood(c) : c \in d[zoom] } :
        zoom = Min(DOMAIN d) \/ Parent(t) \in g[zoom - 1] }

\* GuardLevel as it would be if the parent were looked up among the marked
\* tiles of the zoom below.
GuardLevelParentChanged(poly, d, g, zoom) ==
    { t \in UNION { Neighbourhood(c) : c \in d[zoom] } :
        /\ zoom = Min(DOMAIN d) \/ Parent(t) \in d[zoom - 1]
        /\ tiles_overlapps_polygon(poly, zoom, t[1], t[2]) }

GuardLevel(poly, d, g, zoom) ==
    { t \in UNION { Neighbourhood(c) : c \in d[zoom] } :
        /\ zoom = Min(DOMAIN d) \/ Parent(t) \in g[zoom - 1]
        /\ tiles_overlapps_polygon(poly, zoom, t[1], t[2]) }

\* The loop "for zoom in sorted(self.changed)" from zoom on, g built so far.
RECURSIVE GuardFrom(_, _, _, _)
GuardFrom(poly, d, g, zoom) ==
    IF zoom \notin DOMAIN d THEN g
    ELSE GuardFrom(poly, d, (zoom :> GuardLevel(poly, d, g, zoom)) @@ g, zoom + 1)

\* The tiles range(x-1, x+2) x range(y-1, y+2) in the order of the two loops,
\* each with the marked tile it is visited from.
NeighboursInOrder(tile) ==
    [k \in 1 .. 9 |->
        [centre |-> tile,
         tile |-> << tile[1] - 1 + ((k - 1) \div 3), tile[2] - 1 + ((k - 1) % 3) >>]]

\* The visits of the three nested loops when self.changed[zoom] iterates in
\* the order `order`.
RECURSIVE Visits(_)
Visits(order) ==
    IF order = << >> THEN << >>
    ELSE NeighboursInOrder(Head(order)) \o Visits(Tail(order))

\* The loop body as it would be if the polygon test took (x, y) for
\* (x_guard, y_guard).
RECURSIVE GuardVisitCentreTested(_, _, _, _, _, _, _)
GuardVisitCentreTested(poly, d, g, zoom, visits, tile_checked, level) ==
    IF visits = << >> THEN level
    ELSE LET v == Head(visits)
         IN  IF v.tile \in tile_checked
             THEN GuardVisitCentreTested(poly, d, g, zoom, Tail(visits),
                                         tile_checked, level)
             ELSE GuardVisitCentreTested(
                      poly, d, g, zoom, Tail(visits),
                      tile_checked \cup {v.tile},
                      IF /\ zoom = Min(DOMAIN d) \/ Parent(v.tile) \in g[zoom - 1]
                         /\ tiles_overlapps_polygon(poly, zoom,
                                                    v.centre[1], v.centre[2])
                      THEN level \cup {v.tile} ELSE level)

\* The loops of lines 229-238 for one zoom, visit by visit: tile_checked[zoom]
\* and self.guard[zoom] so far.
RECURSIVE GuardVisit(_, _, _, _, _, _, _)
GuardVisit(poly, d, g, zoom, visits, tile_checked, level) ==
    IF visits = << >> THEN level
    ELSE LET v == Head(visits)
         IN  IF v.tile \in tile_checked
             THEN GuardVisit(poly, d, g, zoom, Tail(visits), tile_checked, level)
             ELSE GuardVisit(
                      poly, d, g, zoom, Tail(visits),
                      tile_checked \cup {v.tile},
                      IF /\ zoom = Min(DOMAIN d) \/ Parent(v.tile) \in g[zoom - 1]
                         /\ tiles_overlapps_polygon(poly, zoom,
                                                    v.tile[1], v.tile[2])
                      THEN level \cup {v.tile} ELSE level)

\* self.guard[zoom] when self.changed[zoom] iterates in the order `order`.
GuardLevelInOrder(poly, d, g, zoom, order) ==
    GuardVisit(poly, d, g, zoom, Visits(order), {}, {})

\* update_guard: the guard attribute afterwards and the exception raised.
update_guard(poly, chg, grd) ==
    IF ~grd.none THEN [guard |-> grd, err |-> ""]
    ELSE IF chg.none THEN [guard |-> Dict(EmptyDict), err |-> "TypeError"]
    ELSE [guard |-> Dict(GuardFrom(poly, chg.d, EmptyDict, Min(DOMAIN chg.d))),
          err |-> ""]

Bool(b) == IF b THEN "True" ELSE "False"

\* A short-circuit "or" of results, an exception ending the evaluation.
RECURSIVE AnyOf(_)
AnyOf(results) ==
    IF results = << >> THEN "False"
    ELSE IF Head(results) = "False" THEN AnyOf(Tail(results))
    ELSE Head(results)

\* Lookup as it would be if the coarser zoom were asked with the same tile.
RECURSIVE LookupSameTile(_, _, _, _, _)
LookupSameTile(chg, g, zoom, x, y) ==
    IF zoom \in DOMAIN g THEN Bool(<< x, y >> \in g[zoom])
    ELSE IF chg.none THEN "TypeError"
    ELSE IF zoom > Max(DOMAIN chg.d)
         THEN LookupSameTile(chg, g, zoom - 1, x, y)
    ELSE IF zoom < Min(DOMAIN chg.d)
         THEN AnyOf(<< LookupSameTile(chg, g, zoom + 1, 2 * x, 2 * y),
                       LookupSameTile(chg, g, zoom + 1, 2 * x + 1, 2 * y + 1),
                       LookupSameTile(chg, g, zoom + 1, 2 * x, 2 * y + 1),
                       LookupSameTile(chg, g, zoom + 1, 2 * x + 1, 2 * y) >>)
    ELSE "KeyError"

\* Lookup as it would be if a coarser tile needed all four children updated.
RECURSIVE LookupAllChildren(_, _, _, _, _)
LookupAllChildren(chg, g, zoom, x, y) ==
    IF zoom \in DOMAIN g THEN Bool(<< x, y >> \in g[zoom])
    ELSE IF chg.none THEN "TypeError"
    ELSE IF zoom > Max(DOMAIN chg.d)
         THEN LookupAllChildren(chg, g, zoom - 1, x \div 2, y \div 2)
    ELSE IF zoom < Min(DOMAIN chg.d)
         THEN Bool(\A dx, dy \in 0 .. 1 :
                     LookupAllChildren(chg, g, zoom + 1, 2 * x + dx, 2 * y + dy)
                         = "True")
    ELSE "KeyError"

\* updated, once self.guard is a dict.
RECURSIVE Lookup(_, _, _, _, _)
Lookup(chg, g, zoom, x, y) ==
    IF zoom \in DOMAIN g THEN Bool(<< x, y >> \in g[zoom])
    ELSE IF chg.none THEN "TypeError"
    ELSE IF zoom > Max(DOMAIN chg.d)
         THEN Lookup(chg, g, zoom - 1, x \div 2, y \div 2)
    ELSE IF zoom < Min(DOMAIN chg.d)
         THEN AnyOf(<< Lookup(chg, g, zoom + 1, 2 * x, 2 * y),
                       Lookup(chg, g, zoom + 1, 2 * x + 1, 2 * y + 1),
                       Lookup(chg, g, zoom + 1, 2 * x, 2 * y + 1),
                       Lookup(chg, g, zoom + 1, 2 * x + 1, 2 * y) >>)
    ELSE "KeyError"

\* updated as it would be if the default of "no analysis" also applied to an
\* index without marks.
updated_default_when_empty(poly, chg, grd, zoom, x, y) ==
    IF grd.none /\ chg.none THEN [val |-> "True", guard |-> grd]
    ELSE LET g == update_guard(poly, chg, grd).guard
         IN  [val |-> IF ~chg.none /\ \A z \in DOMAIN chg.d : chg.d[z] = {}
                      THEN "True" ELSE Lookup(chg, g.d, zoom, x, y),
              guard |-> g]

\* updated as it would be if it threw the guard away after answering.
updated_dropping_guard(poly, chg, grd, zoom, x, y) ==
    IF grd.none /\ chg.none THEN [val |-> "True", guard |-> grd]
    ELSE [val |-> Lookup(chg, update_guard(poly, chg, grd).guard.d, zoom, x, y),
          guard |-> None]

\* updated: its result and the guard attribute afterwards.
updated(poly, chg, grd, zoom, x, y) ==
    IF grd.none /\ chg.none THEN [val |-> "True", guard |-> grd]
    ELSE LET g == update_guard(poly, chg, grd).guard
         IN  [val |-> Lookup(chg, g.d, zoom, x, y), guard |-> g]

\* range(a, a + n, 3) + [a + n - 1]
Samples(a, n) ==
    [k \in 1 .. ((n + 2) \div 3) |-> a + 3 * (k - 1)] \o << a + n - 1 >>

\* The results of the sampled tiles, in the order of the nested loops; the
\* first sample is (x, y), and the guard is a dict after it.
SampleResults(poly, chg, grd, zoom, x, y, width, height) ==
    LET xs == Samples(x, width)
        ys == Samples(y, width)
        first == updated(poly, chg, grd, zoom, xs[1], ys[1])
    IN  [k \in 1 .. (Len(xs) * Len(ys)) |->
            IF k = 1 THEN first.val
            ELSE updated(poly, chg, first.guard, zoom,
                         xs[((k - 1) \div Len(ys)) + 1],
                         ys[((k - 1) % Len(ys)) + 1]).val]

generation_filter(poly, chg, grd, zoom, x, y, width, height) ==
    [val |-> AnyOf(SampleResults(poly, chg, grd, zoom, x, y, width, height)),
     guard |-> updated(poly, chg, grd, zoom, x, y).guard]

save_filter(poly, chg, grd, verb, zoom, x, y) ==
    LET save == updated(poly, chg, grd, zoom, x, y)
    IN  [val |-> IF save.val \in {"True", "False"} /\ verb
                 THEN "NameError" ELSE save.val,
         guard |-> save.guard]

RECURSIVE SumOver(_, _)
SumOver(f, S) ==
    IF S = {} THEN 0
    ELSE LET z == CHOOSE u \in S : TRUE
         IN  Cardinality(f[z]) + SumOver(f, S \ {z})

-----------------------------------------------------------------------------
\* The command object: self.changed, self.guard, the generation polygon and
\* self.verbose of PolygonTileGenCommand, and the outcome of the last call.
VARIABLES changed, guard, polygon, verbose, ret

vars == << changed, guard, polygon, verbose, ret >>

Polygons == { Box(0, 0, Cells - 1, Cells - 1), Box(0, 0, 3, Cells - 1) }

Ret(op, val) == [op |-> op, val |-> val, n |-> << 0, 0 >>]

Init ==
    /\ changed = None
    /\ guard = None
    /\ polygon \in Polygons
    /\ verbose \in BOOLEAN
    /\ ret = Ret("__init__", "None")

\* osmChangeRead as it would be if it left self.guard alone.
OsmChangeReadKeepingGuard(file, baseOsm, newOsm) ==
    LET d0 == IF changed.none THEN [z \in AnalyzedZooms |-> {}] ELSE changed.d
        run == ProcessRecords(polygon, d0, baseOsm, newOsm, file.records)
    IN  /\ guard' = guard
        /\ IF ~file.timestamp_ok
           THEN /\ changed' = Dict(d0)
                /\ ret' = Ret("osmChangeRead", "ValueError")
           ELSE /\ changed' = Dict(run.d)
                /\ ret' = Ret("osmChangeRead",
                              IF run.err = "" THEN "None" ELSE run.err)
        /\ UNCHANGED << polygon, verbose >>

\* osmChangeRead(change_file, base_map, new_map)
OsmChangeRead(file, baseOsm, newOsm) ==
    LET d0 == IF changed.none THEN [z \in AnalyzedZooms |-> {}] ELSE changed.d
        run == ProcessRecords(polygon, d0, baseOsm, newOsm, file.records)
    IN  /\ guard' = None
        /\ IF ~file.timestamp_ok
           THEN /\ changed' = Dict(d0)
                /\ ret' = Ret("osmChangeRead", "ValueError")
           ELSE /\ changed' = Dict(run.d)
                /\ ret' = Ret("osmChangeRead",
                              IF run.err = "" THEN "None" ELSE run.err)
        /\ UNCHANGED << polygon, verbose >>

\* updated(zoom, x, y)
Updated(zoom, x, y) ==
    LET r == updated(polygon, changed, guard, zoom, x, y)
    IN  /\ guard' = r.guard
        /\ ret' = Ret("updated", r.val)
        /\ UNCHANGED << changed, polygon, verbose >>

\* generation_filter(zoom, x, y, width, height)
GenerationFilter(zoom, x, y, width, height) ==
    LET r == generation_filter(polygon, changed, guard, zoom, x, y, width, height)
    IN  /\ guard' = r.guard
        /\ ret' = Ret("generation_filter", r.val)
        /\ UNCHANGED << changed, polygon, verbose >>

\* save_filter(tile)
SaveFilter(zoom, x, y) ==
    LET r == save_filter(polygon, changed, guard, verbose, zoom, x, y)
    IN  /\ guard' = r.guard
        /\ ret' = Ret("save_filter", r.val)
        /\ UNCHANGED << changed, polygon, verbose >>

\* statistics()
Statistics ==
    LET r == update_guard(polygon, changed, guard)
    IN  /\ guard' = r.guard
        /\ ret' = IF r.err # "" THEN Ret("statistics", r.err)
                  ELSE IF changed.none THEN Ret("statistics", "TypeError")
                  ELSE [op |-> "statistics", val |-> "tuple",
                        n |-> << SumOver(changed.d, DOMAIN changed.d),
                                 SumOver(r.guard.d, DOMAIN changed.d) >>]
        /\ UNCHANGED << changed, polygon, verbose >>

\* execute(): "executed" when PolygonTileGenCommand.execute is entered.
\* execute as it would be if only a missing analysis made it return early.
ExecuteUnlessNone ==
    /\ ret' = Ret("execute", IF changed.none THEN "None" ELSE "executed")
    /\ UNCHANGED << changed, guard, polygon, verbose >>

\* execute()
Execute ==
    /\ ret' = Ret("execute",
                  IF changed.none \/ changed.d[Min(DOMAIN changed.d)] = {}
                  THEN "None" ELSE "executed")
    /\ UNCHANGED << changed, guard, polygon, verbose >>

Next ==
    \/ \E file \in ChangeFiles : OsmChangeRead(file, BaseOsm, NewOsm)
    \/ \E zoom \in QueryZooms : \E t \in ProbeTiles(zoom) : Updated(zoom, t[1], t[2])
    \/ \E zoom \in AnalyzedZooms : \E t \in ProbeTiles(zoom) :
          \E width, height \in 1 .. MaxBlock :
             GenerationFilter(zoom, t[1], t[2], width, height)
    \/ \E zoom \in QueryZooms : \E t \in ProbeTiles(zoom) : SaveFilter(zoom, t[1], t[2])
    \/ Statistics
    \/ Execute

Spec == Init /\ [][Next]_vars

-----------------------------------------------------------------------------
\* What the next call of updated(zoom, x, y) returns in the current state.
UpdatedNow(zoom, x, y) == updated(polygon, changed, guard, zoom, x, y).val

\* The guard that update_guard derives from the current changed-tile index.
GuardOfChanged == GuardFrom(polygon, changed.d, EmptyDict, Min(DOMAIN changed.d))

\* The rectangle [left, right] x [top, bottom] of a box at zoom.
TileRectangle(bbox, zoom) ==
    LET lt == deg2num(bbox.max_y, bbox.min_x, zoom)
        rb == deg2num(bbox.min_y, bbox.max_x, zoom)
    IN  (lt[1] .. rb[1]) \X (lt[2] .. rb[2])

\* C1: as long as no osmChangeRead has been performed, updated returns true
\* for every tile at every zoom, whatever queries, statistics or execute calls
\* came before.
C1_DefaultTrueWithoutAnalysis ==
    changed.none =>
        \A zoom \in QueryZooms : \A t \in TilesAt(zoom) :
            UpdatedNow(zoom, t[1], t[2]) = "True"

\* C2: once an analysis was made, a built guard is the guard of the current
\* changed-tile index, and updated at an analysed zoom is membership in it.
C2_GuardNeverStale ==
    (~changed.none /\ ~guard.none) =>
        /\ guard.d = GuardOfChanged
        /\ \A zoom \in AnalyzedZooms : \A t \in TilesAt(zoom) :
              UpdatedNow(zoom, t[1], t[2]) = Bool(t \in GuardOfChanged[zoom])

\* C2 witness: marks were made, the guard was rebuilt by a query and holds
\* tiles that are not themselves marked.
C2_Witness ==
    /\ ~changed.none /\ ~guard.none
    /\ ret.op \in {"updated", "generation_filter", "save_filter", "statistics"}
    /\ changed.d[MaxZoom] # {}
    /\ guard.d[MaxZoom] \ changed.d[MaxZoom] # {}

\* C3: for blocks of width and height 1..3, generation_filter returns true
\* whenever updated is true for some tile of the block.
C3_FilterNoFalseNegative ==
    \A zoom \in AnalyzedZooms : \A t \in TilesAt(zoom) :
        \A width, height \in 1 .. MaxBlock :
            (\E tx \in t[1] .. (t[1] + width - 1) :
                \E ty \in t[2] .. (t[2] + height - 1) :
                    UpdatedNow(zoom, tx, ty) = "True")
            => generation_filter(polygon, changed, guard,
                                 zoom, t[1], t[2], width, height).val = "True"

\* The boxes that osmChangeRead hands to mark_bbox while it reads file.
MarkCalls(file) ==
    IF file.timestamp_ok
    THEN ProcessRecords(polygon,
                        IF changed.none THEN [z \in AnalyzedZooms |-> {}]
                        ELSE changed.d,
                        BaseOsm, NewOsm, file.records).calls
    ELSE << >>

\* C4: every box handed to mark_bbox that overlaps the polygon has all the
\* tiles of its rectangle [left, right] x [top, bottom] marked at max_zoom
\* when osmChangeRead returns, boxes of several tile rows included.
C4_MarkBboxMarksRectangle ==
    [][\A file \in ChangeFiles :
          OsmChangeRead(file, BaseOsm, NewOsm) =>
              \A i \in 1 .. Len(MarkCalls(file)) :
                  LET bbox == MarkCalls(file)[i]
                  IN  linear_ring_overlapps_polygon(polygon, bbox) =>
                          TileRectangle(bbox, MaxZoom) \subseteq changed'.d[MaxZoom]]_vars

\* C5: every tile marked at zoom+1 has its parent marked at zoom, for every
\* zoom in [min_zoom, max_zoom-1].
C5_UpwardPropagation ==
    ~changed.none =>
        \A zoom \in MinZoom .. (MaxZoom - 1) : \A t \in changed.d[zoom + 1] :
            Parent(t) \in changed.d[zoom]

\* C5 witness: an analysis marked several tiles at max_zoom that share a parent
\* chain down to min_zoom.
C5_Witness ==
    /\ ~changed.none
    /\ ret.op = "osmChangeRead"
    /\ Cardinality(changed.d[MaxZoom]) >= 2
    /\ changed.d[MinZoom] # {}

\* C6: a tile marked at some zoom stays marked at that zoom in every later
\* state, whatever is read or queried next.
C6_ChangedGrowsMonotonically ==
    [][~changed.none =>
          /\ ~changed'.none
          /\ \A zoom \in DOMAIN changed.d :
                /\ zoom \in DOMAIN changed'.d
                /\ changed.d[zoom] \subseteq changed'.d[zoom]]_vars

\* C6 witness: the marks of more than one record are all present after an
\* analysis.
C6_Witness ==
    /\ ~changed.none
    /\ ret = Ret("osmChangeRead", "None")
    /\ Cardinality(changed.d[MaxZoom]) >= 3

\* C7: every tile of a built guard overlaps the polygon and, above min_zoom,
\* has its parent in the guard of the zoom below.
C7_GuardInsidePolygonAndHierarchical ==
    ~guard.none =>
        \A zoom \in DOMAIN guard.d : \A t \in guard.d[zoom] :
            /\ tiles_overlapps_polygon(polygon, zoom, t[1], t[2])
            /\ zoom > MinZoom => Parent(t) \in guard.d[zoom - 1]

\* C7 witness: a built guard with tiles at max_zoom, while a neighbour of a
\* marked tile is kept out of it.
C7_Witness ==
    /\ ~changed.none /\ ~guard.none
    /\ guard.d[MaxZoom] # {}
    /\ \E c \in changed.d[MaxZoom] : Neighbourhood(c) \ guard.d[MaxZoom] # {}

\* Whether the element of a record exists in a snapshot.
Present(osm, rec) ==
    \/ rec.element_type = "node" /\ has_node(osm, rec.element_id)
    \/ rec.element_type = "way" /\ has_way(osm, rec.element_id)
    \/ rec.element_type = "relation" /\ has_relation(osm, rec.element_id)

\* A record one of whose snapshots does not hold its element.
Dangling(rec) ==
    \/ rec.action \in {"delete", "modify"} /\ ~Present(BaseOsm, rec)
    \/ rec.action \in {"create", "modify"} /\ ~Present(NewOsm, rec)

\* The boxes of a record in the snapshots that its action calls for and that
\* hold its element.
ResolvableBoxes(rec) ==
    (IF rec.action \in {"delete", "modify"} /\ Present(BaseOsm, rec)
     THEN bboxes(BaseOsm, rec.element_type, rec.element_id, MaxDepth).boxes
     ELSE << >>)
    \o (IF rec.action \in {"create", "modify"} /\ Present(NewOsm, rec)
        THEN bboxes(NewOsm, rec.element_type, rec.element_id, MaxDepth).boxes
        ELSE << >>)

\* Every box of the sequence has been through mark_bbox: marking it again
\* changes nothing.
AllMarked(d, boxes) ==
    \A k \in 1 .. Len(boxes) : mark_bbox(polygon, d, boxes[k]) = d

\* C8: a modify record whose element is absent from the base snapshot and
\* present in the new one still has its new-snapshot boxes marked, and the
\* records after a record with a dangling reference are still processed.
C8_DanglingReferenceSkipsOnlyItsBox ==
    [][\A file \in ChangeFiles :
          (file.timestamp_ok /\ OsmChangeRead(file, BaseOsm, NewOsm)) =>
              \A i \in 1 .. Len(file.records) :
                  LET rec == file.records[i]
                  IN  /\ (rec.action = "modify" /\ ~Present(BaseOsm, rec)
                             /\ Present(NewOsm, rec))
                         => AllMarked(changed'.d, ResolvableBoxes(rec))
                      /\ (\E j \in 1 .. (i - 1) : Dangling(file.records[j])
                             /\ ~Dangling(rec))
                         => AllMarked(changed'.d, ResolvableBoxes(rec))]_vars

\* The boxes of the resolvable members of a relation, in member order.
RECURSIVE MemberBoxes(_, _)
MemberBoxes(osm, members) ==
    IF members = << >> THEN << >>
    ELSE bboxes(osm, MemberType(osm, Head(members)), Head(members).ref_id,
                MaxDepth).boxes
         \o MemberBoxes(osm, Tail(members))

\* C9: for a multipolygon relation bboxes yields exactly one box, the union
\* of the boxes of its resolvable members: while a file is read, the record
\* that creates such a relation hands mark_bbox that one box and no other.
C9_MultipolygonYieldsOneUnionBox ==
    [][\A file \in ChangeFiles :
          (file.timestamp_ok /\ OsmChangeRead(file, BaseOsm, NewOsm)) =>
              \A i \in 1 .. Len(file.records) :
                  LET rec == file.records[i]
                  IN  (/\ rec.element_type = "relation"
                       /\ rec.action = "create"
                       /\ Present(NewOsm, rec)
                       /\ ~rel_members_bbox(NewOsm.relations[rec.element_id]))
                      => ProcessRecord(polygon, changed'.d, BaseOsm, NewOsm, rec).calls
                            = << ExtendAll(EmptyBox,
                                   MemberBoxes(NewOsm,
                                       NewOsm.relations[rec.element_id].members)) >>]_vars

\* The ancestor of tile (x, y) that lies levels zooms above it.
RECURSIVE Ancestor(_, _)
Ancestor(tile, levels) ==
    IF levels <= 0 THEN tile ELSE Ancestor(Parent(tile), levels - 1)

\* C10: above max_zoom, updated(zoom, x, y) is updated(zoom-1, x//2, y//2),
\* and after an analysis it is membership of the tile's ancestor at max_zoom
\* in the guard of max_zoom.
C10_FinerZoomFollowsAncestor ==
    \A zoom \in (MaxZoom + 1) .. (MaxZoom + 2) : \A t \in TilesAt(zoom) :
        /\ UpdatedNow(zoom, t[1], t[2]) = UpdatedNow(zoom - 1, t[1] \div 2, t[2] \div 2)
        /\ ~changed.none =>
              UpdatedNow(zoom, t[1], t[2])
                  = Bool(Ancestor(t, zoom - MaxZoom) \in GuardOfChanged[MaxZoom])

\* C10 witness: after an analysis, updated was asked and answers true for one
\* tile above max_zoom and false for another.
C10_Witness ==
    /\ ~changed.none
    /\ ret.op = "updated"
    /\ \E t \in TilesAt(MaxZoom + 1) : UpdatedNow(MaxZoom + 1, t[1], t[2]) = "True"
    /\ \E t \in TilesAt(MaxZoom + 1) : UpdatedNow(MaxZoom + 1, t[1], t[2]) = "False"

-----------------------------------------------------------------------------
\* The tiles at the finer zoom `fine` that the tile (x, y) at zoom covers.
Descendants(zoom, x, y, fine) ==
    { t \in TilesAt(fine) :
        /\ t[1] \div Pow2(fine - zoom) = x
        /\ t[2] \div Pow2(fine - zoom) = y }

\* The zooms coarser than min_zoom and the tiles asked about there.
CoarserZooms == (MinZoom - 2) .. (MinZoom - 1)

CoarserTiles == (-1 .. 1) \X (-1 .. 1)

\* C11: for every zoom below min_zoom, updated(zoom, x, y) is true exactly
\* when updated(zoom + 1, ., .) is true for at least one of the four children
\* (2x, 2y), (2x+1, 2y), (2x, 2y+1), (2x+1, 2y+1); after an analysis this is
\* exactly when some descendant of the tile at min_zoom is in guard[min_zoom].
C11_CoarserZoomFollowsChildren ==
    \A zoom \in CoarserZooms : \A t \in CoarserTiles :
        /\ UpdatedNow(zoom, t[1], t[2]) = "True"
              <=> \E dx, dy \in 0 .. 1 :
                     UpdatedNow(zoom + 1, 2 * t[1] + dx, 2 * t[2] + dy) = "True"
        /\ ~changed.none =>
              (UpdatedNow(zoom, t[1], t[2]) = "True"
                 <=> Descendants(zoom, t[1], t[2], MinZoom)
                        \cap GuardOfChanged[MinZoom] # {})

\* A coarser tile reported as updated although not all its children are.
C11_Witness ==
    /\ ~changed.none
    /\ ret.op = "updated"
    /\ \E zoom \in CoarserZooms : \E t \in CoarserTiles :
          /\ UpdatedNow(zoom, t[1], t[2]) = "True"
          /\ \E dx, dy \in 0 .. 1 :
                UpdatedNow(zoom + 1, 2 * t[1] + dx, 2 * t[2] + dy) = "False"
    /\ \E zoom \in CoarserZooms : \E t \in CoarserTiles :
          UpdatedNow(zoom, t[1], t[2]) = "False"

-----------------------------------------------------------------------------
\* The change files whose envelope has no children.
EmptyFiles == { file \in ChangeFiles : file.records = << >> }

\* No analysis so far, or no tile marked at any zoom.
EmptyIndex == changed.none \/ \A zoom \in DOMAIN changed.d : changed.d[zoom] = {}

\* C12: analysing a changeset whose envelope has no children marks nothing,
\* so after only such changesets the changed-tile index has no marked tile at
\* any zoom, and execute() then returns without running the tile generation.
C12_EmptyChangesetSkipsExecution ==
    [][ /\ \A file \in EmptyFiles :
             OsmChangeRead(file, BaseOsm, NewOsm) =>
                 /\ ~changed'.none
                 /\ changed.none =>
                       \A zoom \in AnalyzedZooms : changed'.d[zoom] = {}
                 /\ ~changed.none => changed'.d = changed.d
        /\ (EmptyIndex /\ Execute) => ret'.val = "None" ]_vars

\* execute() returned early on an index that an analysis left empty.
C12_Witness ==
    /\ ~changed.none
    /\ EmptyIndex
    /\ ret = Ret("execute", "None")

-----------------------------------------------------------------------------
\* A change file of the one record rec.
FileOf(rec) == [timestamp_ok |-> TRUE, records |-> << rec >>]

\* The index an analysis starts from (lines 92-93).
IndexAtStart == IF changed.none THEN [z \in AnalyzedZooms |-> {}] ELSE changed.d

\* The calls of mark_bbox made for a box that does not overlap the polygon.
Outside(calls) ==
    { k \in DOMAIN calls : ~linear_ring_overlapps_polygon(polygon, calls[k]) }

\* C13: mark_bbox called with a box that does not overlap the polygon leaves
\* the changed-tile index unchanged at every zoom: an analysis of one record
\* that leaves the index different from how it found it has handed mark_bbox
\* a box that overlaps the polygon.
C13_OutsideBoxMarksNothing ==
    [][ (ret'.op = "osmChangeRead" /\ changed' # Dict(IndexAtStart)) =>
          \A rec \in Records :
             OsmChangeRead(FileOf(rec), BaseOsm, NewOsm) =>
                 Outside(MarkCalls(FileOf(rec))) # DOMAIN MarkCalls(FileOf(rec)) ]_vars

\* An analysis has handed mark_bbox a box outside the polygon, and the index
\* is as empty as it was created.
C13_Witness ==
    /\ ~changed.none
    /\ ret = Ret("osmChangeRead", "None")
    /\ \A zoom \in AnalyzedZooms : changed.d[zoom] = {}
    /\ ~linear_ring_overlapps_polygon(polygon, PointBox(BaseOsm.nodes[3]))
    /\ Outside(MarkCalls(FileOf(Record("delete", "node", 3)))) # {}

-----------------------------------------------------------------------------
\* C14: save_filter(tile) returns exactly updated(tile.zoom, tile.x, tile.y)
\* for every tile and in every state, whether or not the verbose flag is set.
C14_SaveFilterIsUpdated ==
    [][ ret'.op = "save_filter" =>
          \A zoom \in QueryZooms : \A t \in ProbeTiles(zoom) :
             SaveFilter(zoom, t[1], t[2]) =>
                 ret'.val = UpdatedNow(zoom, t[1], t[2]) ]_vars

-----------------------------------------------------------------------------
\* The query operations.
Queries == { "updated", "generation_filter", "save_filter", "statistics" }

\* C15: updated, generation_filter, save_filter and statistics never modify
\* the changed-tile index, and once the guard is built none of them modifies
\* it; a built guard changes only through the next osmChangeRead.
C15_QueriesLeaveIndexesAlone ==
    [][ /\ ret'.op \in Queries =>
             /\ changed' = changed
             /\ ~guard.none => guard' = guard
        /\ (~guard.none /\ guard' # guard) =>
             (ret'.op = "osmChangeRead" /\ guard'.none) ]_vars

\* statistics has answered from a built guard that holds tiles.
C15_Witness ==
    /\ ~changed.none /\ ~guard.none
    /\ ret.op = "statistics" /\ ret.val = "tuple"
    /\ ret.n[1] > 0 /\ ret.n[2] > ret.n[1]
    /\ guard.d = GuardOfChanged

-----------------------------------------------------------------------------
\* One enumeration of a set of tiles.
RECURSIVE SeqOf(_)
SeqOf(S) ==
    IF S = {} THEN << >>
    ELSE LET c == CHOOSE c \in S : TRUE IN << c >> \o SeqOf(S \ {c})

Reverse(s) == [k \in 1 .. Len(s) |-> s[Len(s) + 1 - k]]

\* Iteration orders of the dict self.changed[zoom]: every marked tile comes
\* first in one of them and last in another.
Orders(S) ==
    IF S = {} THEN { << >> }
    ELSE LET firsts == { << c >> \o SeqOf(S \ {c}) : c \in S }
         IN  firsts \cup { Reverse(o) : o \in firsts }

\* C16: building the guard is deterministic and idempotent: from the same
\* changed-tile index and polygon every order of visiting the marked tiles
\* gives the same guard at each zoom, a rebuild after invalidation gives the
\* guard that was built before, and update_guard on a built guard changes
\* nothing.
C16_GuardBuildDeterministicIdempotent ==
    ~changed.none =>
        /\ \A zoom \in AnalyzedZooms : \A order \in Orders(changed.d[zoom]) :
              GuardLevelInOrder(polygon, changed.d, GuardOfChanged, zoom, order)
                  = GuardOfChanged[zoom]
        /\ ~guard.none =>
              /\ update_guard(polygon, changed, None).guard = guard
              /\ update_guard(polygon, changed, guard) = [guard |-> guard, err |-> ""]

\* A built guard over several marked tiles, one of them outside the polygon,
\* so that a tile of the guard is the neighbour of tiles inside and outside.
C16_Witness ==
    /\ ~changed.none /\ ~guard.none
    /\ Cardinality(changed.d[MaxZoom]) >= 2
    /\ \E c \in changed.d[MaxZoom] :
          ~tiles_overlapps_polygon(polygon, MaxZoom, c[1], c[2])
    /\ \E t \in guard.d[MaxZoom] :
          \E c1, c2 \in changed.d[MaxZoom] :
             /\ c1 # c2
             /\ t \in Neighbourhood(c1) \cap Neighbourhood(c2)

-----------------------------------------------------------------------------
\* C17: resolving the bounding boxes of a relation terminates for every
\* relation-membership graph, a relation that lists itself as a member
\* included: the repeated relation id is ignored, so no analysis ends in the
\* exception of an exhausted recursion.
C17_RelationCycleTerminates ==
    ret.op = "osmChangeRead" => ret.val # "RuntimeError"

-----------------------------------------------------------------------------
\* C18: each change record marks tiles from the snapshots its action calls
\* for: after the analysis of one record the index is the index before plus
\* the marks of the element's boxes in the base snapshot for a delete, in the
\* new snapshot for a create, and in both for a modify.
C18_RecordMarksItsSnapshots ==
    [][ ret'.op = "osmChangeRead" =>
          \A rec \in Records :
             OsmChangeRead(FileOf(rec), BaseOsm, NewOsm) =>
                 changed'.d = MarkBoxes(polygon, IndexAtStart,
                                        ResolvableBoxes(rec)) ]_vars

-----------------------------------------------------------------------------
\* The tiles at zoom and the ring of tiles around the world.
TilesAround(zoom) == (-1 .. Pow2(zoom)) \X (-1 .. Pow2(zoom))

\* A tile overlaps the polygon only if its parent does.
PolygonMonotone ==
    \A zoom \in (MinZoom + 1) .. MaxZoom : \A t \in TilesAround(zoom) :
        tiles_overlapps_polygon(polygon, zoom, t[1], t[2]) =>
            tiles_overlapps_polygon(polygon, zoom - 1, Parent(t)[1], Parent(t)[2])

\* C19: when a tile overlaps the polygon only if its parent does, the built
\* guard[zoom] is at every analysed zoom exactly the set of the tiles that
\* overlap the polygon and are a marked tile of the zoom or one of its eight
\* neighbours: the parent-in-guard condition leaves none of them out.
C19_GuardIsClippedNeighbourhood ==
    (~changed.none /\ ~guard.none /\ PolygonMonotone) =>
        \A zoom \in AnalyzedZooms :
            guard.d[zoom] =
                { t \in UNION { Neighbourhood(c) : c \in changed.d[zoom] } :
                    tiles_overlapps_polygon(polygon, zoom, t[1], t[2]) }

\* A built guard holding, at max_zoom, a tile whose parent is not a marked
\* tile, while a neighbour outside the polygon is kept out.
C19_Witness ==
    /\ ~changed.none /\ ~guard.none /\ PolygonMonotone
    /\ \E t \in guard.d[MaxZoom] : Parent(t) \notin changed.d[MaxZoom - 1]
    /\ \E c \in changed.d[MaxZoom] : \E t \in Neighbourhood(c) :
          /\ t \in TilesAt(MaxZoom)
          /\ ~tiles_overlapps_polygon(polygon, MaxZoom, t[1], t[2])

-----------------------------------------------------------------------------
\* C20: execute() decides from the coarsest level alone, which is the same as
\* looking at all levels: after an analysis changed[min_zoom] is empty exactly
\* when no tile is marked at any analysed zoom, so execute() runs the tile
\* generation exactly when some tile is marked anywhere in the index, and
\* skips it when no analysis was ever made.
C20_ExecuteDecidesFromCoarsestLevel ==
    /\ ~changed.none =>
          (changed.d[MinZoom] = {} <=> \A zoom \in AnalyzedZooms : changed.d[zoom] = {})
    /\ ret.op = "execute" =>
          (ret.val = "executed" <=>
              (~changed.none /\ \E zoom \in AnalyzedZooms : changed.d[zoom] # {}))
    /\ (ret.op = "execute" /\ changed.none) => ret.val = "None"

\* execute() has run the tile generation on an index with marked tiles.
C20_Witness ==
    /\ ret = Ret("execute", "executed")
    /\ ~changed.none
    /\ changed.d[MinZoom] # {} /\ changed.d[MaxZoom] # {}

-----------------------------------------------------------------------------
\* The zooms asked about, two levels beyond the analysed ones on either side,
\* and the tiles asked about, some of them outside the world.
AnyZooms == (MinZoom - 2) .. (MaxZoom + 2)

AnyTiles == (-1 .. MaxProbe) \X (-1 .. MaxProbe)

\* C21: once osmChangeRead has been called, even on an empty changeset, the
\* default of "everything is updated" no longer applies: in every state where
\* an analysis was made and no tile is marked, updated(zoom, x, y) returns
\* false for every tile at every zoom, inside and outside [min_zoom, max_zoom].
C21_NoDefaultAfterAnalysis ==
    (~changed.none /\ EmptyIndex) =>
        \A zoom \in AnyZooms : \A t \in AnyTiles :
            UpdatedNow(zoom, t[1], t[2]) = "False"

\* updated has answered False on an index that an analysis left without
\* marks, the guard built from it being empty at every zoom.
C21_Witness ==
    /\ ~changed.none /\ EmptyIndex
    /\ ~guard.none
    /\ \A zoom \in AnalyzedZooms : guard.d[zoom] = {}
    /\ ret = Ret("updated", "False")

=============================================================================
